---- MODULE Spec2Model ----
(***************************************************************************)
(* Model of src/app.py, the Streamlit multilingual checker: the repository *)
(* fetcher clone_gitlab_repo, the analysis pipeline behind                 *)
(* generate_multilingual_report, the language detector and the             *)
(* fetch-then-analyze branch of main.                                      *)
(*                                                                         *)
(* Python strings are modelled as sequences of one-character strings, so   *)
(* that lower(), endswith(), split(), the `in` substring test and the      *)
(* regular expressions are computed rather than assumed.  A word in an     *)
(* Indic script is one symbol of the alphabet (written in ASCII, e.g.      *)
(* "NAMASTE_DEVA"): no indicator of the catalog is a proper substring of   *)
(* another one, and lower() leaves these scripts unchanged.                *)
(***************************************************************************)
EXTENDS Integers, Sequences, FiniteSets, TLC

VARIABLES
    \* main (the fetch-then-analyze branch, lines 381-466)
    mpc, repo_url, dir_exists, created, removed, runs,
    \* clone_gitlab_repo (lines 20-94)
    fpc, idx, possible_urls, log, tdir, fresult, xlayout, pre,
    \* generate_multilingual_report (lines 254-333) and its helpers
    rpc, tree, fi, streamlit_files, all_patterns, all_languages,
    translation_files, requirements_analysis, confidence_score,
    is_multilingual, recommendations,
    \* detect_languages_in_content driven on free text (lines 194-224)
    content, detected, fed

mainVars   == <<mpc, repo_url, dir_exists, created, removed, runs>>
fetchVars  == <<fpc, idx, possible_urls, log, tdir, fresult, xlayout, pre>>
reportVars == <<rpc, tree, fi, streamlit_files, all_patterns, all_languages,
                translation_files, requirements_analysis, confidence_score,
                is_multilingual, recommendations>>
langVars   == <<content, detected, fed>>
vars       == <<mainVars, fetchVars, reportVars, langVars>>

----------------------------------------------------------------------------
(* Bounds of the model *)

\* how many times the user presses "Analyze Repository"
MaxRuns == 2
\* how many files a repository tree holds
MaxFiles == 2
\* length of a free text handed to detect_languages_in_content
MaxTextLen == 3
\* how many free texts are fed to the language-union loop
MaxTexts == 2

----------------------------------------------------------------------------
(* Python str operations *)

UpperCase == <<"A","B","C","D","E","F","G","H","I","J","K","L","M","N","O","P","Q","R","S","T","U","V","W","X","Y","Z">>
LowerCase == <<"a","b","c","d","e","f","g","h","i","j","k","l","m","n","o","p","q","r","s","t","u","v","w","x","y","z">>

\* str.lower() on one character
LowerChar(c) ==
    IF c \in {UpperCase[k] : k \in 1..26}
    THEN LowerCase[CHOOSE k \in 1..26 : UpperCase[k] = c]
    ELSE c

\* str.lower()
Lower(s) == [i \in 1..Len(s) |-> LowerChar(s[i])]

\* sub in s
Contains(s, sub) ==
    \E i \in 0..(Len(s) - Len(sub)) : SubSeq(s, i + 1, i + Len(sub)) = sub

\* s.startswith(p)
StartsWith(s, p) == Len(p) <= Len(s) /\ SubSeq(s, 1, Len(p)) = p

\* s.endswith(p)
EndsWith(s, p) ==
    Len(p) <= Len(s) /\ SubSeq(s, Len(s) - Len(p) + 1, Len(s)) = p

\* s.rstrip(c)
RECURSIVE RStrip(_, _)
RStrip(s, c) ==
    IF Len(s) > 0 /\ s[Len(s)] = c THEN RStrip(SubSeq(s, 1, Len(s) - 1), c) ELSE s

\* s.split(c): the pieces between the separators, empty pieces included
RECURSIVE Split(_, _)
Split(s, c) ==
    IF \E i \in 1..Len(s) : s[i] = c
    THEN LET i == CHOOSE k \in 1..Len(s) : s[k] = c /\ \A j \in 1..(k - 1) : s[j] # c
         IN  <<SubSeq(s, 1, i - 1)>> \o Split(SubSeq(s, i + 1, Len(s)), c)
    ELSE <<s>>

\* c.join(parts)
RECURSIVE Join(_, _)
Join(parts, c) ==
    IF Len(parts) = 0 THEN <<>>
    ELSE IF Len(parts) = 1 THEN parts[1]
    ELSE parts[1] \o <<c>> \o Join(Tail(parts), c)

----------------------------------------------------------------------------
(* clone_gitlab_repo: URL handling *)

\* the repository URLs typed by the user
RepoUrls == {
    \* https://gitlab.com/o/r
    <<"h","t","t","p","s",":","/","/","g","i","t","l","a","b",".","c","o","m","/","o","/","r">>,
    \* https://code.org/o/r           (a GitLab instance without "git" in its name)
    <<"h","t","t","p","s",":","/","/","c","o","d","e",".","o","r","g","/","o","/","r">>,
    \* http://git.io/o/r.git
    <<"h","t","t","p",":","/","/","g","i","t",".","i","o","/","o","/","r",".","g","i","t">>,
    \* https://GitLab.com/o/r/
    <<"h","t","t","p","s",":","/","/","G","i","t","L","a","b",".","c","o","m","/","o","/","r","/">>,
    \* gitlab.com/o/r                 (no scheme: main only warns)
    <<"g","i","t","l","a","b",".","c","o","m","/","o","/","r">> }

\* lines 24-27
GitUrl(url) == IF ~EndsWith(url, <<".","g","i","t">>) THEN url \o <<".","g","i","t">> ELSE url

\* line 44
ArchiveGuard(url) ==
    /\ Contains(url, <<"/","/">>)
    /\ (Contains(Lower(url), <<"g","i","t","l","a","b">>) \/ Contains(Lower(url), <<"g","i","t">>))

\* line 46
UrlParts(url) == Split(RStrip(url, "/"), "/")

\* lines 49-54
ProtocolAndDomain(url) ==
    LET parts == UrlParts(url) IN Join(SubSeq(parts, 1, Len(parts) - 2), "/")
Owner(url) == LET parts == UrlParts(url) IN parts[Len(parts) - 1]
Repo(url) ==
    LET parts == UrlParts(url)
        repo  == parts[Len(parts)]
    IN  IF EndsWith(repo, <<".","g","i","t">>) THEN SubSeq(repo, 1, Len(repo) - 4) ELSE repo

\* a fetcher that lists the master archive before the main one
PossibleUrlsMasterFirst(url) ==
    LET base == ProtocolAndDomain(url) \o <<"/">> \o Owner(url) \o <<"/">> \o Repo(url)
    IN  << base \o <<"/","-","/","a","r","c","h","i","v","e","/","m","a","s","t","e","r","/">> \o Repo(url) \o <<"-","m","a","s","t","e","r",".","z","i","p">>,
           base \o <<"/","-","/","a","r","c","h","i","v","e","/","m","a","i","n","/">> \o Repo(url) \o <<"-","m","a","i","n",".","z","i","p">>,
           base \o <<"/","r","e","p","o","s","i","t","o","r","y","/","a","r","c","h","i","v","e",".","z","i","p","?","r","e","f","=","m","a","i","n">>,
           base \o <<"/","r","e","p","o","s","i","t","o","r","y","/","a","r","c","h","i","v","e",".","z","i","p","?","r","e","f","=","m","a","s","t","e","r">> >>

\* lines 57-62
PossibleUrls(url) ==
    LET base == ProtocolAndDomain(url) \o <<"/">> \o Owner(url) \o <<"/">> \o Repo(url)
    IN  << base \o <<"/","-","/","a","r","c","h","i","v","e","/","m","a","i","n","/">> \o Repo(url) \o <<"-","m","a","i","n",".","z","i","p">>,
           base \o <<"/","-","/","a","r","c","h","i","v","e","/","m","a","s","t","e","r","/">> \o Repo(url) \o <<"-","m","a","s","t","e","r",".","z","i","p">>,
           base \o <<"/","r","e","p","o","s","i","t","o","r","y","/","a","r","c","h","i","v","e",".","z","i","p","?","r","e","f","=","m","a","i","n">>,
           base \o <<"/","r","e","p","o","s","i","t","o","r","y","/","a","r","c","h","i","v","e",".","z","i","p","?","r","e","f","=","m","a","s","t","e","r">> >>

----------------------------------------------------------------------------
(* clone_gitlab_repo: the target directory *)

\* An entry of the target directory: a file, or a directory with the names
\* of the files it holds.
File(n)      == [name |-> n, isdir |-> FALSE, items |-> {}]
Dir(n, its)  == [name |-> n, isdir |-> TRUE, items |-> its]
Names(t)     == {e.name : e \in t}

\* what `git clone` leaves behind when it succeeds
ClonedRepo == {Dir(".git", {"HEAD"}), File("app.py")}
\* what a `git clone` killed at the 60 s timeout may leave behind
PartialClone == {Dir(".git", {"HEAD"})}

\* what an archive may unpack to
SingleWrapperLayout == {Dir("w", {"a", "b"})}
TwoDirsLayout       == {Dir("w", {"a"}), Dir("v", {"b"})}
WrapperAndFile      == {Dir("w", {"a"}), File("README")}
FilesOnly           == {File("a"), File("b")}
WrapperHoldingZip   == {Dir("w", {"a", "repo.zip"})}
Layouts == {SingleWrapperLayout, TwoDirsLayout, WrapperAndFile, FilesOnly,
            WrapperHoldingZip}

\* extraction produced a single top-level wrapper directory
IsSingleWrapper(layout) ==
    Cardinality(layout) = 1 /\ \A e \in layout : e.isdir

\* zipfile.extractall into a directory that may already hold entries:
\* files are overwritten, directories are merged
ExtractInto(t, layout) ==
    {e \in t : e.name \notin Names(layout)} \cup
    {IF e.isdir /\ \E o \in t : o.name = e.name /\ o.isdir
     THEN Dir(e.name, e.items \cup (CHOOSE o \in t : o.name = e.name).items)
     ELSE e : e \in layout}

\* open(zip_path, 'wb') and write (lines 68-70)
WithZip(t) == {e \in t : e.name # "repo.zip"} \cup {File("repo.zip")}

----------------------------------------------------------------------------
(* clone_gitlab_repo: the steps *)

NoUrls == <<>>

\* one request of the fetcher, with its outcome
Entry(kind, url, status, proc) ==
    [kind |-> kind, url |-> url, status |-> status, proc |-> proc]

\* the outcome of processing the archive candidate requested last
Processed(l, how) == [l EXCEPT ![Len(l)].proc = how]

\* outcomes of subprocess.run (lines 30-39): exit code 0, a non-zero exit
\* code, the three exceptions caught at line 38, and any other exception
CloneOutcomes == {"ok", "nonzero", "timeout", "notfound", "oserror", "other"}

\* outcomes of requests.get (lines 66-67)
HttpOutcomes == {"200", "404", "error"}

\* `return` of clone_gitlab_repo
FetchReturn(val) == fpc' = "returned" /\ fresult' = val

\* `continue` at line 86, or the end of the loop and `return False` (line 90)
NextCandidate ==
    IF idx < Len(possible_urls)
    THEN idx' = idx + 1 /\ fpc' = "request" /\ UNCHANGED fresult
    ELSE UNCHANGED idx /\ FetchReturn(FALSE)

\* lines 29-39, and the handler at lines 92-94 for what line 38 lets through
DirectClone ==
    /\ fpc = "clone"
    /\ \E outcome \in CloneOutcomes :
        /\ log' = Append(log, Entry("clone", GitUrl(repo_url), outcome, "none"))
        /\ CASE outcome = "ok" ->
                  tdir' = ClonedRepo /\ FetchReturn(TRUE)
             [] outcome = "timeout" ->
                  /\ tdir' \in {tdir, PartialClone}
                  /\ fpc' = "method2" /\ UNCHANGED fresult
             [] outcome \in {"nonzero", "notfound", "oserror"} ->
                  UNCHANGED tdir /\ fpc' = "method2" /\ UNCHANGED fresult
             [] outcome = "other" ->
                  UNCHANGED tdir /\ FetchReturn(FALSE)
    /\ UNCHANGED <<idx, possible_urls, xlayout, pre>>
    /\ UNCHANGED <<mainVars, reportVars, langVars>>

\* lines 42-62: the guard on the URL and the candidate list
Method2 ==
    /\ fpc = "method2"
    /\ IF ArchiveGuard(repo_url) /\ Len(UrlParts(repo_url)) >= 2
       THEN /\ possible_urls' = PossibleUrls(repo_url)
            /\ idx' = 1
            /\ fpc' = "request"
            /\ UNCHANGED fresult
       ELSE /\ FetchReturn(FALSE)
            /\ UNCHANGED <<possible_urls, idx>>
    /\ UNCHANGED <<log, tdir, xlayout, pre>>
    /\ UNCHANGED <<mainVars, reportVars, langVars>>

\* lines 64-67 (and 85-86 when the request raises)
Request ==
    /\ fpc = "request"
    /\ \E status \in HttpOutcomes :
        IF status = "200"
        THEN /\ log' = Append(log, Entry("get", possible_urls[idx], status, "pending"))
             /\ fpc' = "extract"
             /\ UNCHANGED <<idx, fresult>>
        ELSE /\ log' = Append(log, Entry("get", possible_urls[idx], status, "none"))
             /\ NextCandidate
    /\ UNCHANGED <<possible_urls, tdir, xlayout, pre>>
    /\ UNCHANGED <<mainVars, reportVars, langVars>>

\* lines 68-73: save the payload and unpack it; a payload that is no zip
\* archive raises, and line 85 goes on to the next candidate
SaveExtract ==
    /\ fpc = "extract"
    /\ \/ /\ tdir' = WithZip(tdir)
          /\ log' = Processed(log, "failed")
          /\ NextCandidate
          /\ xlayout' = {} /\ pre' = {}
       \/ \E layout \in Layouts :
          /\ tdir' = ExtractInto(WithZip(tdir), layout)
          /\ xlayout' = layout
          /\ pre' = tdir'
          /\ fpc' = "flatten"
          /\ UNCHANGED <<log, idx, fresult>>
    /\ UNCHANGED possible_urls
    /\ UNCHANGED <<mainVars, reportVars, langVars>>

\* the entries shutil.move puts into the target directory
Moved(items) == {File(n) : n \in items}

\* lines 76-84: extracted_dirs[0] is whichever directory os.listdir names
\* first; shutil.move raises when the name is taken in the target directory
Flatten ==
    /\ fpc = "flatten"
    /\ LET extracted_dirs == {e \in tdir : e.isdir} IN
       IF extracted_dirs = {}
       THEN /\ tdir' = {e \in tdir : e.name # "repo.zip"}
            /\ log' = Processed(log, "ok")
            /\ FetchReturn(TRUE)
            /\ UNCHANGED idx
       ELSE \E d \in extracted_dirs :
            LET taken == {n \in d.items : n \in Names(tdir)} IN
            IF taken = {}
            THEN /\ tdir' = {e \in (tdir \ {d}) \cup Moved(d.items) : e.name # "repo.zip"}
                 /\ log' = Processed(log, "ok")
                 /\ FetchReturn(TRUE)
                 /\ UNCHANGED idx
            ELSE \E done \in SUBSET (d.items \ taken) :
                 /\ tdir' = (tdir \ {d}) \cup {Dir(d.name, d.items \ done)}
                                \cup Moved(done)
                 /\ log' = Processed(log, "failed")
                 /\ NextCandidate
    /\ UNCHANGED <<possible_urls, xlayout, pre>>
    /\ UNCHANGED <<mainVars, reportVars, langVars>>

----------------------------------------------------------------------------
(* main: the fetch-then-analyze branch *)

\* lines 378 and 381
ValidUrl(url) == StartsWith(url, <<"h","t","t","p",":","/","/">>) \/ StartsWith(url, <<"h","t","t","p","s",":","/","/">>)

FetchIdle ==
    /\ fpc' = "idle" /\ idx' = 0 /\ possible_urls' = NoUrls /\ log' = <<>>
    /\ fresult' = FALSE /\ xlayout' = {} /\ pre' = {}

\* lines 371-379: a URL without scheme only draws the warning
Warn ==
    /\ mpc = "idle"
    /\ \E url \in RepoUrls : ~ValidUrl(url) /\ repo_url' = url
    /\ UNCHANGED <<mpc, dir_exists, created, removed, runs>>
    /\ UNCHANGED <<fetchVars, reportVars, langVars>>

\* lines 381-382: the button is pressed on a valid URL
Click ==
    /\ mpc = "idle"
    /\ runs < MaxRuns
    /\ \E url \in RepoUrls : ValidUrl(url) /\ repo_url' = url
    /\ mpc' = "clicked"
    /\ runs' = runs + 1
    /\ UNCHANGED <<dir_exists, created, removed>>
    /\ UNCHANGED <<fetchVars, reportVars, langVars>>

\* line 385, entering the `with`, and the call at line 388
EnterTempDir ==
    /\ mpc = "clicked"
    /\ dir_exists' = TRUE
    /\ created' = created + 1
    /\ mpc' = "fetch"
    /\ fpc' = "clone"
    /\ tdir' = {}
    /\ UNCHANGED <<repo_url, removed, runs>>
    /\ UNCHANGED <<idx, possible_urls, log, fresult, xlayout, pre>>
    /\ UNCHANGED <<reportVars, langVars>>

\* lines 388-455: the report is generated and displayed, or an error is
\* raised on the way
FetchSucceeded ==
    /\ mpc = "fetch" /\ fpc = "returned" /\ fresult
    /\ \E outcome \in {"shown", "raising"} : mpc' = outcome
    /\ FetchIdle
    /\ UNCHANGED <<repo_url, dir_exists, created, removed, runs, tdir>>
    /\ UNCHANGED <<reportVars, langVars>>

\* lines 457-466
FetchFailed ==
    /\ mpc = "fetch" /\ fpc = "returned" /\ ~fresult
    /\ mpc' = "failed"
    /\ FetchIdle
    /\ UNCHANGED <<repo_url, dir_exists, created, removed, runs, tdir>>
    /\ UNCHANGED <<reportVars, langVars>>

\* a working directory that is removed only when the block ends normally
ExitTempDirNoFinally ==
    /\ mpc \in {"shown", "failed", "raising"}
    /\ IF mpc = "raising"
       THEN mpc' = "crashed" /\ UNCHANGED <<dir_exists, removed, tdir>>
       ELSE mpc' = "done" /\ dir_exists' = FALSE /\ removed' = removed + 1
            /\ tdir' = {}
    /\ UNCHANGED <<repo_url, created, runs>>
    /\ UNCHANGED <<fpc, idx, possible_urls, log, fresult, xlayout, pre>>
    /\ UNCHANGED <<reportVars, langVars>>

\* line 385, leaving the `with`: TemporaryDirectory.__exit__ removes the
\* directory whether the block ended normally or with an exception
ExitTempDir ==
    /\ mpc \in {"shown", "failed", "raising"}
    /\ dir_exists' = FALSE
    /\ removed' = removed + 1
    /\ tdir' = {}
    /\ mpc' = IF mpc = "raising" THEN "crashed" ELSE "done"
    /\ UNCHANGED <<repo_url, created, runs>>
    /\ UNCHANGED <<fpc, idx, possible_urls, log, fresult, xlayout, pre>>
    /\ UNCHANGED <<reportVars, langVars>>

\* the script is run again on the next interaction
Rerun ==
    /\ mpc \in {"done", "crashed"}
    /\ mpc' = "idle"
    /\ UNCHANGED <<repo_url, dir_exists, created, removed, runs>>
    /\ UNCHANGED <<fetchVars, reportVars, langVars>>

----------------------------------------------------------------------------
(* Regular expressions, as re.findall applies them at line 155 *)

\* A pattern is a sequence of pieces: a literal, a run of whitespace (\s+,
\* \s*), or a run of characters other than newline (. and .*).  max = -1
\* stands for an unbounded run.
Lit(s)  == [k |-> "lit", s |-> Lower(s), min |-> 0, max |-> 0]
WsPlus  == [k |-> "ws",  s |-> <<>>, min |-> 1, max |-> -1]
WsStar  == [k |-> "ws",  s |-> <<>>, min |-> 0, max |-> -1]
AnyOne  == [k |-> "any", s |-> <<>>, min |-> 1, max |-> 1]
AnyStar == [k |-> "any", s |-> <<>>, min |-> 0, max |-> -1]

\* \s
IsSpace(c) == c \in {" ", "\n", "\t", "\r", "\f"}

\* what one character of a run may be
InClass(k, c) == IF k = "ws" THEN IsSpace(c) ELSE c # "\n"

\* the length of the longest run of class k in s after position j
RECURSIVE RunLen(_, _, _)
RunLen(k, s, j) ==
    IF j < Len(s) /\ InClass(k, s[j + 1]) THEN 1 + RunLen(k, s, j + 1) ELSE 0

\* the positions where a match of pieces n.. of pat may end when it starts
\* after position j of s (s already lower-cased: re.IGNORECASE)
RECURSIVE MatchEnds(_, _, _, _)
MatchEnds(pat, n, s, j) ==
    IF n > Len(pat) THEN {j}
    ELSE LET p == pat[n] IN
         IF p.k = "lit"
         THEN IF j + Len(p.s) <= Len(s) /\ SubSeq(s, j + 1, j + Len(p.s)) = p.s
              THEN MatchEnds(pat, n + 1, s, j + Len(p.s))
              ELSE {}
         ELSE LET run == RunLen(p.k, s, j)
                  top == IF p.max = -1 \/ run < p.max THEN run ELSE p.max
              IN  UNION {MatchEnds(pat, n + 1, s, j + r) : r \in p.min..top}

SetMax(S) == CHOOSE x \in S : \A y \in S : y <= x

\* the scan of re.findall over text, whose lower-cased form is low, from
\* position j on: the matches from left to right, none overlapping, each as
\* long as its greedy run allows
RECURSIVE FindAllFrom(_, _, _, _)
FindAllFrom(pat, text, low, j) ==
    IF j >= Len(text) THEN <<>>
    ELSE LET ends == MatchEnds(pat, 1, low, j) IN
         IF ends = {} THEN FindAllFrom(pat, text, low, j + 1)
         ELSE LET e == SetMax(ends)
              IN  <<SubSeq(text, j + 1, e)>> \o
                  FindAllFrom(pat, text, low, IF e > j THEN e ELSE j + 1)

\* re.findall(pattern, content, re.IGNORECASE | re.MULTILINE)
FindAll(pat, text) == FindAllFrom(pat, text, Lower(text), 0)

----------------------------------------------------------------------------
(* analyze_i18n_patterns: the taxonomy of lines 119-140 *)

Patterns == <<
    [category |-> "gettext", type |-> "imports", list |-> <<
        \* import\s+gettext
        <<Lit(<<"i","m","p","o","r","t">>), WsPlus, Lit(<<"g","e","t","t","e","x","t">>)>>,
        \* from\s+gettext\s+import
        <<Lit(<<"f","r","o","m">>), WsPlus, Lit(<<"g","e","t","t","e","x","t">>), WsPlus, Lit(<<"i","m","p","o","r","t">>)>> >>],
    [category |-> "gettext", type |-> "functions", list |-> <<
        \* _\(     gettext\(     ngettext\(
        <<Lit(<<"_","(">>)>>, <<Lit(<<"g","e","t","t","e","x","t","(">>)>>, <<Lit(<<"n","g","e","t","t","e","x","t","(">>)>> >>],
    [category |-> "gettext", type |-> "setup", list |-> <<
        \* gettext\..\(.\)
        <<Lit(<<"g","e","t","t","e","x","t",".">>), AnyOne, Lit(<<"(">>), AnyOne, Lit(<<")">>)>>,
        \* \.bindtextdomain\(     \.textdomain\(
        <<Lit(<<".","b","i","n","d","t","e","x","t","d","o","m","a","i","n","(">>)>>, <<Lit(<<".","t","e","x","t","d","o","m","a","i","n","(">>)>> >>],
    [category |-> "streamlit_i18n", type |-> "imports", list |-> <<
        \* import\s+streamlit_i18n
        <<Lit(<<"i","m","p","o","r","t">>), WsPlus, Lit(<<"s","t","r","e","a","m","l","i","t","_","i","1","8","n">>)>>,
        \* from\s+streamlit_i18n
        <<Lit(<<"f","r","o","m">>), WsPlus, Lit(<<"s","t","r","e","a","m","l","i","t","_","i","1","8","n">>)>> >>],
    [category |-> "streamlit_i18n", type |-> "functions", list |-> <<
        \* i18n\(     \.translate\(     \.t\(
        <<Lit(<<"i","1","8","n","(">>)>>, <<Lit(<<".","t","r","a","n","s","l","a","t","e","(">>)>>, <<Lit(<<".","t","(">>)>> >>],
    [category |-> "babel", type |-> "imports", list |-> <<
        \* import\s+babel     from\s+babel
        <<Lit(<<"i","m","p","o","r","t">>), WsPlus, Lit(<<"b","a","b","e","l">>)>>,
        <<Lit(<<"f","r","o","m">>), WsPlus, Lit(<<"b","a","b","e","l">>)>> >>],
    [category |-> "babel", type |-> "functions", list |-> <<
        \* Locale\(     format_currency\(     format_date\(
        <<Lit(<<"L","o","c","a","l","e","(">>)>>, <<Lit(<<"f","o","r","m","a","t","_","c","u","r","r","e","n","c","y","(">>)>>, <<Lit(<<"f","o","r","m","a","t","_","d","a","t","e","(">>)>> >>],
    [category |-> "custom_translation", type |-> "dictionaries", list |-> <<
        \* translations\s*=\s*{
        <<Lit(<<"t","r","a","n","s","l","a","t","i","o","n","s">>), WsStar, Lit(<<"=">>), WsStar, Lit(<<"{">>)>>,
        \* languages\s*=\s*{
        <<Lit(<<"l","a","n","g","u","a","g","e","s">>), WsStar, Lit(<<"=">>), WsStar, Lit(<<"{">>)>>,
        \* TRANSLATIONS\s*=
        <<Lit(<<"T","R","A","N","S","L","A","T","I","O","N","S">>), WsStar, Lit(<<"=">>)>> >>],
    [category |-> "custom_translation", type |-> "functions", list |-> <<
        \* translate\(     get_text\(     tr\(
        <<Lit(<<"t","r","a","n","s","l","a","t","e","(">>)>>, <<Lit(<<"g","e","t","_","t","e","x","t","(">>)>>, <<Lit(<<"t","r","(">>)>> >>],
    [category |-> "language_detection", type |-> "patterns", list |-> <<
        \* st\.selectbox.*lang
        <<Lit(<<"s","t",".","s","e","l","e","c","t","b","o","x">>), AnyStar, Lit(<<"l","a","n","g">>)>>,
        \* language.*select
        <<Lit(<<"l","a","n","g","u","a","g","e">>), AnyStar, Lit(<<"s","e","l","e","c","t">>)>>,
        \* locale     LANG
        <<Lit(<<"l","o","c","a","l","e">>)>>, <<Lit(<<"L","A","N","G">>)>> >>] >>

\* lines 153-157: the matches of all the patterns of one type, in
\* declaration order
RECURSIVE MatchesFrom(_, _, _)
MatchesFrom(list, text, low) ==
    IF Len(list) = 0 THEN <<>>
    ELSE FindAllFrom(Head(list), text, low, 0) \o MatchesFrom(Tail(list), text, low)

MatchesOf(list, text) == MatchesFrom(list, text, Lower(text))

\* lines 150-161: the types that matched, grouped by category; empty types
\* and empty categories are left out
GroupByCategory(found) ==
    LET hit == {n \in 1..Len(Patterns) : found[n] # <<>>}
    IN  [c \in {Patterns[n].category : n \in hit} |->
            [t \in {Patterns[n].type : n \in {h \in hit : Patterns[h].category = c}} |->
                found[CHOOSE n \in hit : Patterns[n].category = c /\ Patterns[n].type = t]]]

\* lines 148-163: category -> type -> matches
PatternResults(text) ==
    CHOOSE results \in
        {GroupByCategory(found) :
            found \in {[n \in 1..Len(Patterns) |-> MatchesOf(Patterns[n].list, text)]}} : TRUE

----------------------------------------------------------------------------
(* detect_languages_in_content: the indicators of lines 197-215 *)

\* the language keys, in the order of the dictionary
LanguageKeys == <<"english", "hindi", "bengali", "tamil", "telugu", "marathi",
                  "gujarati", "kannada", "malayalam", "punjabi", "oriya",
                  "assamese", "urdu", "sanskrit", "kashmiri", "nepali", "sinhala">>

\* the indicators of each key; a word in an Indic script is one symbol
language_indicators == <<
    \* english
    {<<"e","n">>, <<"e","n","g","l","i","s","h">>, <<"h","e","l","l","o">>, <<"t","h","a","n","k"," ","y","o","u">>, <<"p","l","e","a","s","e">>, <<"w","e","l","c","o","m","e">>, <<"g","o","o","d","b","y","e">>},
    \* hindi
    {<<"h","i">>, <<"HINDI_DEVA">>, <<"NAMASTE_DEVA">>, <<"DHANYAVAD_DEVA">>,
     <<"KRIPAYA_DEVA">>, <<"SWAGAT_DEVA">>, <<"ALVIDA_DEVA">>},
    \* bengali
    {<<"b","n">>, <<"BANGLA_BENG">>, <<"NAMASKAR_BENG">>, <<"DHANYABAD_BENG">>,
     <<"DAYA_BENG", " ", "KORE_BENG">>, <<"SWAGATAM_BENG">>},
    \* tamil
    {<<"t","a">>, <<"TAMIL_TAML">>, <<"VANAKKAM_TAML">>, <<"NANDRI_TAML">>,
     <<"DAYAVUSEYDU_TAML">>, <<"VARAVERKIROM_TAML">>},
    \* telugu
    {<<"t","e">>, <<"TELUGU_TELU">>, <<"NAMASKARAM_TELU">>, <<"DHANYAVADALU_TELU">>,
     <<"DAYACHESI_TELU">>, <<"SWAGATAM_TELU">>},
    \* marathi
    {<<"m","r">>, <<"MARATHI_DEVA">>, <<"NAMASKAR_DEVA">>, <<"DHANYAVAD_DEVA">>,
     <<"KRIPAYA_DEVA">>, <<"SWAGAT_DEVA">>},
    \* gujarati
    {<<"g","u">>, <<"GUJARATI_GUJR">>, <<"NAMASTE_GUJR">>, <<"ABHAR_GUJR">>,
     <<"KRUPA_GUJR", " ", "KARINE_GUJR">>, <<"SWAGAT_GUJR">>},
    \* kannada
    {<<"k","n">>, <<"KANNADA_KNDA">>, <<"NAMASTE_KNDA">>, <<"DHANYAVADAGALU_KNDA">>,
     <<"DAYAVITTU_KNDA">>, <<"SWAGATA_KNDA">>},
    \* malayalam
    {<<"m","l">>, <<"MALAYALAM_MLYM">>, <<"NAMASTE_MLYM">>, <<"NANDI_MLYM">>,
     <<"DAYAVAYI_MLYM">>, <<"SWAGATAM_MLYM">>},
    \* punjabi
    {<<"p","a">>, <<"PUNJABI_GURU">>, <<"SAT_GURU", " ", "SRI_GURU", " ", "AKAL_GURU">>,
     <<"DHANNVAD_GURU">>, <<"KIRPA_GURU", " ", "KARKE_GURU">>},
    \* oriya
    {<<"o","r">>, <<"ODIA_ORYA">>, <<"NAMASKAR_ORYA">>, <<"DHANYABAD_ORYA">>,
     <<"DAYAKARI_ORYA">>, <<"SWAGAT_ORYA">>},
    \* assamese
    {<<"a","s">>, <<"ASAMIYA_BENG">>, <<"NAMASKAR_ASSAMESE_BENG">>, <<"DHANYABAD_BENG">>,
     <<"ANUGRAH_BENG", " ", "KORI_BENG">>},
    \* urdu
    {<<"u","r">>, <<"URDU_ARAB">>, <<"ADAB_ARAB">>, <<"SHUKRIYA_ARAB">>,
     <<"BARAH_ARAB", " ", "KARAM_ARAB">>, <<"KHUSH_ARAB", " ", "AMDID_ARAB">>},
    \* sanskrit
    {<<"s","a">>, <<"SANSKRIT_DEVA">>, <<"NAMASTE_DEVA">>, <<"DHANYAVAD_DEVA">>,
     <<"KRIPAYA_DEVA">>},
    \* kashmiri
    {<<"k","s">>, <<"KOSHUR_DEVA">>, <<"NAMASKAR_DEVA">>, <<"SHUKRIYA_DEVA">>,
     <<"MEHARBANI_DEVA">>},
    \* nepali
    {<<"n","e">>, <<"NEPALI_DEVA">>, <<"NAMASTE_DEVA">>, <<"DHANYAVAD_DEVA">>,
     <<"KRIPAYA_DEVA">>, <<"SWAGAT_DEVA">>},
    \* sinhala
    {<<"s","i">>, <<"SINHALA_SINH">>, <<"AYUBOWAN_SINH">>, <<"STUTIYI_SINH">>,
     <<"KARUNAKARA_SINH">>} >>

\* a detector that collects the two-letter code that stands first among the
\* indicators instead of the language key
DetectCodes(text) ==
    LET codes == <<"en", "hi", "bn", "ta", "te", "mr", "gu", "kn", "ml", "pa",
                   "or", "as", "ur", "sa", "ks", "ne", "si">>
    IN  {codes[n] : n \in {m \in 1..Len(LanguageKeys) :
            \E ind \in language_indicators[m] : Contains(Lower(text), ind)}}

\* lines 217-224
DetectLanguages(text) ==
    {LanguageKeys[n] : n \in {m \in 1..Len(LanguageKeys) :
        \E ind \in language_indicators[m] : Contains(Lower(text), ind)}}

----------------------------------------------------------------------------
(* The repository tree *)

\* A file of the tree: the directories above it (below the root), its name,
\* its text, and the stages of the analysis at which opening or reading it
\* fails: "find" (line 108), "patterns" (line 143), "languages" (line 282),
\* "requirements" (line 241).
F(dir, name, text, fails) ==
    [dir |-> dir, name |-> name, text |-> text, fails |-> fails]

\* the files a tree is drawn from
FilePool == {
    \* app.py: import streamlit
    F(<<>>, <<"a","p","p",".","p","y">>, <<"i","m","p","o","r","t"," ","s","t","r","e","a","m","l","i","t">>, {}),
    \* ui.py: st.x(hi)
    F(<<>>, <<"u","i",".","p","y">>, <<"s","t",".","x","(","h","i",")">>, {}),
    \* t.py: st._(x)               (a gettext call, no language indicator)
    F(<<>>, <<"t",".","p","y">>, <<"s","t",".","_","(","x",")">>, {}),
    \* bad.py: st._(hi), which cannot be read at all
    F(<<>>, <<"b","a","d",".","p","y">>, <<"s","t",".","_","(","h","i",")">>, {"find", "patterns", "languages"}),
    \* p.py: st._(hi), whose read fails in the pattern analysis only
    F(<<>>, <<"p",".","p","y">>, <<"s","t",".","_","(","h","i",")">>, {"patterns"}),
    \* l.py: st._(hi), whose read fails in the language detection only
    F(<<>>, <<"l",".","p","y">>, <<"s","t",".","_","(","h","i",")">>, {"languages"}),
    \* tr.py: import gettext       (no framework marker)
    F(<<>>, <<"t","r",".","p","y">>, <<"i","m","p","o","r","t"," ","g","e","t","t","e","x","t">>, {}),
    \* src/i.py: st.x  import gettext
    F(<<<<"s","r","c">>>>, <<"i",".","p","y">>, <<"s","t",".","x","\n","i","m","p","o","r","t"," ","g","e","t","t","e","x","t">>, {}),
    \* setup.py: st.tabs  import babel     (a candidate and a manifest)
    F(<<>>, <<"s","e","t","u","p",".","p","y">>, <<"s","t",".","t","a","b","s","\n","i","m","p","o","r","t"," ","b","a","b","e","l">>, {}),
    \* a.po
    F(<<>>, <<"a",".","p","o">>, <<"m","s","g","i","d">>, {}),
    \* .git/b.po                   (a hidden directory)
    F(<<<<".","g","i","t">>>>, <<"b",".","p","o">>, <<"m","s","g","i","d">>, {}),
    \* lang.json
    F(<<>>, <<"l","a","n","g",".","j","s","o","n">>, <<"{","}">>, {}),
    \* requirements.txt: Babel
    F(<<>>, <<"r","e","q","u","i","r","e","m","e","n","t","s",".","t","x","t">>, <<"B","a","b","e","l">>, {}),
    \* requirements.txt: Babel, which cannot be read
    F(<<>>, <<"r","e","q","u","i","r","e","m","e","n","t","s",".","t","x","t">>, <<"B","a","b","e","l">>, {"requirements"}),
    \* Pipfile: flask-babel
    F(<<>>, <<"P","i","p","f","i","l","e">>, <<"f","l","a","s","k","-","b","a","b","e","l">>, {}),
    \* src/requirements.txt: polib (a manifest below the root)
    F(<<<<"s","r","c">>>>, <<"r","e","q","u","i","r","e","m","e","n","t","s",".","t","x","t">>, <<"p","o","l","i","b">>, {}) }

\* str(path.relative_to(directory))
RelPath(f) == Join(f.dir \o <<f.name>>, "/")

RECURSIVE SeqsUpTo(_, _)
SeqsUpTo(S, n) ==
    IF n = 0 THEN {<<>>}
    ELSE LET shorter == SeqsUpTo(S, n - 1)
         IN  shorter \cup {Append(t, x) : t \in {u \in shorter : Len(u) = n - 1}, x \in S}

\* the trees: up to MaxFiles files in the order os.walk meets them, no two
\* at the same path
Trees ==
    {t \in SeqsUpTo(FilePool, MaxFiles) :
        \A i, j \in 1..Len(t) : i # j => RelPath(t[i]) # RelPath(t[j])}

RelPaths(fs) == [i \in 1..Len(fs) |-> RelPath(fs[i])]

----------------------------------------------------------------------------
(* find_streamlit_files, lines 96-115 *)

\* line 102: the directories os.walk does not descend into
SkippedByFind(d) ==
    StartsWith(d, <<".">>) \/ d \in {<<"_","p","y","c","a","c","h","e","_">>, <<"n","o","d","e","_","m","o","d","u","l","e","s">>}

\* lines 105-113
IsStreamlitFile(f) ==
    /\ \A i \in 1..Len(f.dir) : ~SkippedByFind(f.dir[i])
    /\ EndsWith(f.name, <<".","p","y">>)
    /\ "find" \notin f.fails
    /\ (Contains(Lower(f.text), <<"s","t","r","e","a","m","l","i","t">>) \/ Contains(f.text, <<"s","t",".">>))

FindStreamlitFiles(t) == SelectSeq(t, IsStreamlitFile)

----------------------------------------------------------------------------
(* analyze_i18n_patterns, lines 142-163 *)

\* an analysis that works on the text read during discovery
AnalyzeI18nPatternsCached(f) == PatternResults(f.text)

AnalyzeI18nPatterns(f) ==
    IF "patterns" \in f.fails THEN <<>> ELSE PatternResults(f.text)

----------------------------------------------------------------------------
(* find_translation_files, lines 165-192 *)

Keywords == {<<"l","a","n","g">>, <<"t","r","a","n","s","l","a","t","i","o","n">>, <<"l","o","c","a","l","e">>, <<"i","1","8","n">>}
HasKeyword(name) == \E k \in Keywords : Contains(Lower(name), k)

\* a classification that takes .pot templates for the .po catalogs
BucketPotOnly(name) ==
    IF EndsWith(name, <<".","p","o","t">>) THEN "po_files"
    ELSE IF EndsWith(name, <<".","m","o">>) THEN "mo_files"
    ELSE IF EndsWith(name, <<".","j","s","o","n">>) /\ HasKeyword(name) THEN "json_translations"
    ELSE IF (EndsWith(name, <<".","y","m","l">>) \/ EndsWith(name, <<".","y","a","m","l">>)) /\ HasKeyword(name)
         THEN "yaml_translations"
    ELSE IF EndsWith(name, <<".","p","r","o","p","e","r","t","i","e","s">>) THEN "properties_files"
    ELSE ""

\* lines 181-190: the bucket of a file name, "" for none
Bucket(name) ==
    IF EndsWith(name, <<".","p","o">>) THEN "po_files"
    ELSE IF EndsWith(name, <<".","m","o">>) THEN "mo_files"
    ELSE IF EndsWith(name, <<".","j","s","o","n">>) /\ HasKeyword(name) THEN "json_translations"
    ELSE IF (EndsWith(name, <<".","y","m","l">>) \/ EndsWith(name, <<".","y","a","m","l">>)) /\ HasKeyword(name)
         THEN "yaml_translations"
    ELSE IF EndsWith(name, <<".","p","r","o","p","e","r","t","i","e","s">>) THEN "properties_files"
    ELSE ""

Buckets == {"po_files", "mo_files", "json_translations", "yaml_translations",
            "properties_files"}

\* line 176
Hidden(f) == \E i \in 1..Len(f.dir) : StartsWith(f.dir[i], <<".">>)

\* lines 167-192, with the paths made relative as at lines 294-295
FindTranslationFiles(t) ==
    [b \in Buckets |->
        LET InBucket(f) == ~Hidden(f) /\ Bucket(f.name) = b
        IN  RelPaths(SelectSeq(t, InBucket))]

----------------------------------------------------------------------------
(* analyze_requirements_file, lines 226-252 *)

i18n_packages == <<<<"s","t","r","e","a","m","l","i","t","-","i","1","8","n">>, <<"b","a","b","e","l">>, <<"g","e","t","t","e","x","t">>, <<"p","y","t","h","o","n","-","g","e","t","t","e","x","t">>,
                   <<"f","l","a","s","k","-","b","a","b","e","l">>, <<"d","j","a","n","g","o","-","r","o","s","e","t","t","a">>, <<"p","o","l","i","b">>, <<"t","r","a","n","s","l","a","t","e">>>>

Manifests == <<<<"r","e","q","u","i","r","e","m","e","n","t","s",".","t","x","t">>, <<"r","e","q","u","i","r","e","m","e","n","t","s",".","i","n">>, <<"p","y","p","r","o","j","e","c","t",".","t","o","m","l">>,
               <<"s","e","t","u","p",".","p","y">>, <<"P","i","p","f","i","l","e">>>>

\* line 238: the manifest of that name in the root of the tree
RootFiles(t, name) == {i \in 1..Len(t) : t[i].dir = <<>> /\ t[i].name = name}

\* lines 243-245: the packages found in one text, in catalog order
RECURSIVE PackagesIn(_, _)
PackagesIn(text, pkgs) ==
    IF Len(pkgs) = 0 THEN <<>>
    ELSE (IF Contains(Lower(text), Lower(Head(pkgs))) THEN <<Head(pkgs)>> ELSE <<>>)
         \o PackagesIn(text, Tail(pkgs))

\* a scan that stops at the first manifest it cannot read
RECURSIVE ScanManifestsBreak(_, _, _)
ScanManifestsBreak(t, names, acc) ==
    IF Len(names) = 0 THEN acc
    ELSE LET here == RootFiles(t, Head(names)) IN
         IF here = {} THEN ScanManifestsBreak(t, Tail(names), acc)
         ELSE LET f    == t[CHOOSE i \in here : TRUE]
                  seen == [acc EXCEPT !.requirements_files = Append(@, Head(names))]
              IN  IF "requirements" \in f.fails
                  THEN seen
                  ELSE ScanManifestsBreak(t, Tail(names),
                           [seen EXCEPT !.i18n_packages = @ \o PackagesIn(f.text, i18n_packages)])

\* a scan that lists every package once
RECURSIVE ScanManifestsDedup(_, _, _)
ScanManifestsDedup(t, names, acc) ==
    IF Len(names) = 0 THEN acc
    ELSE LET here == RootFiles(t, Head(names)) IN
         IF here = {} THEN ScanManifestsDedup(t, Tail(names), acc)
         ELSE LET f    == t[CHOOSE i \in here : TRUE]
                  seen == [acc EXCEPT !.requirements_files = Append(@, Head(names))]
                  NotYet(p) == \A i \in 1..Len(acc.i18n_packages) : acc.i18n_packages[i] # p
              IN  IF "requirements" \in f.fails
                  THEN ScanManifestsDedup(t, Tail(names), seen)
                  ELSE ScanManifestsDedup(t, Tail(names),
                           [seen EXCEPT !.i18n_packages =
                               @ \o SelectSeq(PackagesIn(f.text, i18n_packages), NotYet)])

\* one pass of the loop of line 236
RECURSIVE ScanManifests(_, _, _)
ScanManifests(t, names, acc) ==
    IF Len(names) = 0 THEN acc
    ELSE LET here == RootFiles(t, Head(names)) IN
         IF here = {} THEN ScanManifests(t, Tail(names), acc)
         ELSE LET f    == t[CHOOSE i \in here : TRUE]
                  seen == [acc EXCEPT !.requirements_files = Append(@, Head(names))]
              IN  IF "requirements" \in f.fails
                  THEN ScanManifests(t, Tail(names), seen)
                  ELSE ScanManifests(t, Tail(names),
                           [seen EXCEPT !.i18n_packages = @ \o PackagesIn(f.text, i18n_packages)])

AnalyzeRequirementsFile(t) ==
    ScanManifests(t, Manifests, [requirements_files |-> <<>>, i18n_packages |-> <<>>])

----------------------------------------------------------------------------
(* generate_multilingual_report, lines 254-333 *)

\* a score that weighs translation files above pattern matches
ConfidenceScoreSwapped(patterns, translations, packages, languages) ==
    LET score == (IF patterns THEN 30 ELSE 0) + (IF translations THEN 40 ELSE 0)
                 + (IF packages THEN 20 ELSE 0) + (IF languages THEN 10 ELSE 0)
    IN  IF score < 100 THEN score ELSE 100

\* a score that gives an i18n package 10 points only
ConfidenceScoreLightPackages(patterns, translations, packages, languages) ==
    LET score == (IF patterns THEN 40 ELSE 0) + (IF translations THEN 30 ELSE 0)
                 + (IF packages THEN 10 ELSE 0) + (IF languages THEN 10 ELSE 0)
    IN  IF score < 100 THEN score ELSE 100

\* lines 302-313
ConfidenceScore(patterns, translations, packages, languages) ==
    LET score == (IF patterns THEN 40 ELSE 0) + (IF translations THEN 30 ELSE 0)
                 + (IF packages THEN 20 ELSE 0) + (IF languages THEN 10 ELSE 0)
    IN  IF score < 100 THEN score ELSE 100

\* a classification that needs more than 30 points
IsMultilingualAbove(score) == score > 30

\* line 314
IsMultilingual(score) == score >= 30

\* line 306 and line 326: any(translation_files.values())
AnyTranslationFiles(tf) == \E b \in DOMAIN tf : tf[b] # <<>>

\* lines 317-331
Recommendations(multilingual, packages, translations) ==
    IF ~multilingual
    THEN <<"implement i18n", "add language selection", "create translation files",
           "use Unicode fonts">>
    ELSE (IF ~packages THEN <<"document i18n dependencies">> ELSE <<>>)
         \o (IF ~translations THEN <<"use standard translation formats">> ELSE <<>>)
         \o <<"ensure Unicode support", "test with Indic input">>

\* lines 267-269
R_Find ==
    /\ rpc = "find"
    /\ streamlit_files' = RelPaths(FindStreamlitFiles(tree))
    /\ fi' = 1
    /\ rpc' = "loop"
    /\ UNCHANGED <<tree, all_patterns, all_languages, translation_files,
                   requirements_analysis, confidence_score, is_multilingual,
                   recommendations>>
    /\ UNCHANGED <<mainVars, fetchVars, langVars>>

\* lines 275-287: one file of the loop
R_AnalyzeFile ==
    /\ rpc = "loop"
    /\ fi <= Len(FindStreamlitFiles(tree))
    /\ LET file_path == FindStreamlitFiles(tree)[fi]
           patterns  == AnalyzeI18nPatterns(file_path)
       IN  /\ all_patterns' =
                 IF DOMAIN patterns # {}
                 THEN [p \in DOMAIN all_patterns \cup {RelPath(file_path)} |->
                          IF p = RelPath(file_path) THEN patterns ELSE all_patterns[p]]
                 ELSE all_patterns
           /\ all_languages' =
                 IF "languages" \in file_path.fails
                 THEN all_languages
                 ELSE all_languages \cup DetectLanguages(file_path.text)
    /\ fi' = fi + 1
    /\ UNCHANGED <<rpc, tree, streamlit_files, translation_files,
                   requirements_analysis, confidence_score, is_multilingual,
                   recommendations>>
    /\ UNCHANGED <<mainVars, fetchVars, langVars>>

\* lines 289-295
R_Translations ==
    /\ rpc = "loop"
    /\ fi > Len(FindStreamlitFiles(tree))
    /\ translation_files' = FindTranslationFiles(tree)
    /\ rpc' = "requirements"
    /\ UNCHANGED <<tree, fi, streamlit_files, all_patterns, all_languages,
                   requirements_analysis, confidence_score, is_multilingual,
                   recommendations>>
    /\ UNCHANGED <<mainVars, fetchVars, langVars>>

\* lines 297-299
R_Requirements ==
    /\ rpc = "requirements"
    /\ requirements_analysis' = AnalyzeRequirementsFile(tree)
    /\ rpc' = "score"
    /\ UNCHANGED <<tree, fi, streamlit_files, all_patterns, all_languages,
                   translation_files, confidence_score, is_multilingual,
                   recommendations>>
    /\ UNCHANGED <<mainVars, fetchVars, langVars>>

\* lines 301-333
R_Score ==
    /\ rpc = "score"
    /\ LET score == ConfidenceScore(DOMAIN all_patterns # {},
                                    AnyTranslationFiles(translation_files),
                                    requirements_analysis.i18n_packages # <<>>,
                                    Cardinality(all_languages) > 1)
       IN  /\ confidence_score' = score
           /\ is_multilingual' = IsMultilingual(score)
           /\ recommendations' =
                 Recommendations(IsMultilingual(score),
                                 requirements_analysis.i18n_packages # <<>>,
                                 AnyTranslationFiles(translation_files))
    /\ rpc' = "done"
    /\ UNCHANGED <<tree, fi, streamlit_files, all_patterns, all_languages,
                   translation_files, requirements_analysis>>
    /\ UNCHANGED <<mainVars, fetchVars, langVars>>

----------------------------------------------------------------------------
(* detect_languages_in_content on free text, and the union of line 285 *)

\* the characters free text is made of
LangAlphabet == {"E", "n", "h", "i", "NAMASTE_DEVA"}

Texts == SeqsUpTo(LangAlphabet, MaxTextLen)

\* the catalog the application declares (lines 348-367): English and the
\* Indic languages
LanguageCatalog == {"english", "hindi", "bengali", "tamil", "telugu", "marathi",
                    "gujarati", "kannada", "malayalam", "punjabi", "oriya",
                    "assamese", "urdu", "sanskrit", "kashmiri", "nepali", "sinhala"}

\* lines 282-285 on one more text; the text after it is drawn unless it was
\* the last one
L_Feed ==
    /\ fed < MaxTexts
    /\ detected' = DetectLanguages(content)
    /\ all_languages' = all_languages \cup detected'
    /\ fed' = fed + 1
    /\ IF fed' < MaxTexts THEN content' \in Texts ELSE content' = <<>>
    /\ UNCHANGED <<rpc, tree, fi, streamlit_files, all_patterns,
                   translation_files, requirements_analysis, confidence_score,
                   is_multilingual, recommendations>>
    /\ UNCHANGED <<mainVars, fetchVars>>

----------------------------------------------------------------------------
(* Claims about clone_gitlab_repo and main *)

\* the k-th declared archive candidate, told by its own shape
IsCandidate(k, u) ==
    CASE k = 1 -> Contains(u, <<"/","-","/","a","r","c","h","i","v","e","/","m","a","i","n","/">>) /\ EndsWith(u, <<"-","m","a","i","n",".","z","i","p">>)
      [] k = 2 -> Contains(u, <<"/","-","/","a","r","c","h","i","v","e","/","m","a","s","t","e","r","/">>) /\ EndsWith(u, <<"-","m","a","s","t","e","r",".","z","i","p">>)
      [] k = 3 -> EndsWith(u, <<"/","r","e","p","o","s","i","t","o","r","y","/","a","r","c","h","i","v","e",".","z","i","p","?","r","e","f","=","m","a","i","n">>)
      [] k = 4 -> EndsWith(u, <<"/","r","e","p","o","s","i","t","o","r","y","/","a","r","c","h","i","v","e",".","z","i","p","?","r","e","f","=","m","a","s","t","e","r">>)
      [] OTHER -> FALSE

\* the direct clone comes first, and the archive requests follow in the
\* declared order
DeclaredOrder ==
    /\ Len(log) >= 1 => log[1].kind = "clone"
    /\ \A i \in 2..Len(log) : log[i].kind = "get" /\ IsCandidate(i - 1, log[i].url)

\* C1 as stated: the direct clone is attempted before any archive URL, the
\* four candidates are requested in their declared order, and once a
\* candidate answers HTTP 200 no later candidate is requested.
C1_AsStated ==
    /\ DeclaredOrder
    /\ \A i \in 1..(Len(log) - 1) : log[i].status # "200"

\* C1 amended: the direct clone is attempted before any archive URL, the
\* four candidates are requested in their declared order, and no candidate
\* is requested after one that answered HTTP 200 and was saved, unpacked
\* and flattened without error; a later candidate follows an HTTP 200 only
\* when processing that payload failed.
C1_OrderAndShortCircuit ==
    /\ DeclaredOrder
    /\ \A i \in 1..(Len(log) - 1) :
          log[i].status = "200" => log[i].proc = "failed"
    /\ \A i \in 1..Len(log) :
          log[i].proc = "ok" => i = Len(log) /\ fpc = "returned" /\ fresult

\* the second candidate answered 200 and failed to unpack, the third one
\* answered 200, was unpacked, and ended the fetch
C1_Witness ==
    /\ fpc = "returned" /\ fresult
    /\ Len(log) = 4
    /\ log[3].status = "200" /\ log[3].proc = "failed"
    /\ log[4].status = "200" /\ log[4].proc = "ok"

\* C2 as stated: whenever the direct clone fails, archive candidate URLs are
\* requested before the function returns failure.
C2_AsStated ==
    (fpc = "returned" /\ ~fresult /\ log[1].status # "ok")
        => \E i \in 1..Len(log) : log[i].kind = "get"

\* C7: one working directory per invocation, created before the fetch and
\* removed on every exit path (analysis shown, fetch failed, error raised).
C7_TempDirScoped ==
    /\ dir_exists <=> mpc \in {"fetch", "shown", "failed", "raising"}
    /\ fpc # "idle" => dir_exists
    /\ created = IF mpc = "clicked" THEN runs - 1 ELSE runs
    /\ removed = IF dir_exists THEN created - 1 ELSE created

\* an invocation left through an error raised during the analysis
C7_Witness == mpc = "crashed" /\ ~dir_exists /\ created = 1 /\ removed = 1

\* what C8 expects of the target directory once the archive is unpacked
C8_Expected ==
    IF IsSingleWrapper(xlayout)
    THEN LET w == CHOOSE e \in xlayout : TRUE
         IN  {e \in pre : e.name \notin {w.name, "repo.zip"}} \cup Moved(w.items)
    ELSE {e \in pre : e.name # "repo.zip"}

\* C8 as stated: after a successful download and extraction the contents are
\* flattened one level up iff extraction produced a single top-level
\* wrapper directory, otherwise the layout is left as it is; in both cases
\* the function returns success.
C8_AsStated ==
    /\ (fpc = "returned" /\ fresult /\ log[Len(log)].kind = "get")
          => tdir = C8_Expected
    /\ (Len(log) > 0 /\ log[Len(log)].proc = "failed") => xlayout = {}

----------------------------------------------------------------------------
(* Claims about generate_multilingual_report and its helpers *)

Points(signal, weight) == IF signal THEN weight ELSE 0

\* the four signals, read off the finished report
PatternsDetected  == DOMAIN all_patterns # {}
TranslationsFound == \E b \in Buckets : translation_files[b] # <<>>
PackageFound      == requirements_analysis.i18n_packages # <<>>
SeveralLanguages  == Cardinality(all_languages) > 1

\* C3: for every combination of the four signals the confidence score is the
\* sum of {0,40}+{0,30}+{0,20}+{0,10} clamped to [0,100], hence one of
\* 0,10,...,100, and is_multilingual holds iff the score is at least 30.
C3_ScoreIsClampedSum ==
    rpc = "done" =>
        LET sum == Points(PatternsDetected, 40) + Points(TranslationsFound, 30)
                   + Points(PackageFound, 20) + Points(SeveralLanguages, 10)
        IN  /\ confidence_score = (IF sum > 100 THEN 100 ELSE IF sum < 0 THEN 0 ELSE sum)
            /\ confidence_score \in {10 * k : k \in 0..10}
            /\ is_multilingual <=> confidence_score >= 30

\* all four signals are up and the score is 100
C3_Witness ==
    /\ rpc = "done"
    /\ PatternsDetected /\ TranslationsFound /\ PackageFound /\ SeveralLanguages
    /\ confidence_score = 100 /\ is_multilingual

\* the tree holds no candidate file
NoCandidates == \A i \in 1..Len(tree) : ~IsStreamlitFile(tree[i])

\* C4 as stated: with zero candidate files the report has no candidate
\* file, a confidence score of 0 and is_multilingual = false, whatever else
\* the tree contains.
C4_AsStated ==
    (rpc = "done" /\ NoCandidates) =>
        streamlit_files = <<>> /\ confidence_score = 0 /\ ~is_multilingual

\* C4 amended: with zero candidate files the report has no candidate file,
\* no pattern match and no detected language; its score is 30 for a
\* translation file plus 20 for an i18n package of a root manifest, so it is
\* 0 with is_multilingual = false exactly when the tree holds neither, and
\* is_multilingual is true exactly when a translation file is present.
C4_NoCandidates ==
    (rpc = "done" /\ NoCandidates) =>
        /\ streamlit_files = <<>>
        /\ DOMAIN all_patterns = {}
        /\ all_languages = {}
        /\ confidence_score = Points(TranslationsFound, 30) + Points(PackageFound, 20)
        /\ is_multilingual <=> TranslationsFound
        /\ (~TranslationsFound /\ ~PackageFound)
              <=> (confidence_score = 0 /\ ~is_multilingual)

\* a tree of two files, none a candidate, none a translation file or a
\* manifest with a package: the score is 0
C4_Witness ==
    /\ rpc = "done" /\ NoCandidates /\ Len(tree) = 2
    /\ streamlit_files = <<>> /\ confidence_score = 0 /\ ~is_multilingual

\* the text holds a gettext-style import (the `imports` patterns of the
\* gettext category, line 121)
HasGettextImport(text) ==
    \/ FindAll(<<Lit(<<"i","m","p","o","r","t">>), WsPlus, Lit(<<"g","e","t","t","e","x","t">>)>>, text) # <<>>
    \/ FindAll(<<Lit(<<"f","r","o","m">>), WsPlus, Lit(<<"g","e","t","t","e","x","t">>), WsPlus, Lit(<<"i","m","p","o","r","t">>)>>, text) # <<>>

\* the report of C5: a gettext category, a .po file, at least 70 points
C5_Report ==
    /\ \E p \in DOMAIN all_patterns :
          /\ "gettext" \in DOMAIN all_patterns[p]
          /\ DOMAIN all_patterns[p]["gettext"] # {}
    /\ translation_files["po_files"] # <<>>
    /\ confidence_score >= 70

\* C5 as stated: a tree with a file containing a gettext-style import and a
\* .po file yields a non-empty gettext category, a non-empty po_files
\* bucket and a score of at least 70.
C5_AsStated ==
    (/\ rpc = "done"
     /\ \E i \in 1..Len(tree) : HasGettextImport(tree[i].text)
     /\ \E i \in 1..Len(tree) : EndsWith(tree[i].name, <<".","p","o">>))
        => C5_Report

\* the file is a .py file outside hidden and excluded directories that can
\* be read and holds the framework marker ("streamlit" in any case, or "st.")
IsCandidateSource(f) ==
    /\ \A i \in 1..Len(f.dir) :
          f.dir[i][1] # "." /\ f.dir[i] \notin {<<"_","p","y","c","a","c","h","e","_">>, <<"n","o","d","e","_","m","o","d","u","l","e","s">>}
    /\ EndsWith(f.name, <<".","p","y">>)
    /\ f.fails \cap {"find", "patterns"} = {}
    /\ (Contains(Lower(f.text), <<"s","t","r","e","a","m","l","i","t">>) \/ Contains(f.text, <<"s","t",".">>))

\* C5 amended: a tree with a candidate file (a readable .py file outside
\* hidden and excluded directories that holds the framework marker)
\* containing a gettext-style import, and a .po file outside hidden
\* directories, yields a non-empty gettext category, a non-empty po_files
\* bucket and a score of at least 70.
C5_GettextAndPo ==
    (/\ rpc = "done"
     /\ \E i \in 1..Len(tree) :
           IsCandidateSource(tree[i]) /\ HasGettextImport(tree[i].text)
     /\ \E i \in 1..Len(tree) :
           /\ EndsWith(tree[i].name, <<".","p","o">>)
           /\ \A d \in 1..Len(tree[i].dir) : tree[i].dir[d][1] # ".")
        => C5_Report

\* src/i.py imports gettext and a.po lies in the root
C5_Witness ==
    /\ rpc = "done"
    /\ \E i \in 1..Len(tree) :
          IsCandidateSource(tree[i]) /\ HasGettextImport(tree[i].text)
    /\ \E i \in 1..Len(tree) : tree[i].dir = <<>> /\ EndsWith(tree[i].name, <<".","p","o">>)
    /\ C5_Report

\* the elements of a sequence
Range(s) == {s[i] : i \in 1..Len(s)}

\* the root manifests of the tree, and those whose read fails
RootManifests == {i \in 1..Len(tree) :
                    tree[i].dir = <<>> /\ tree[i].name \in Range(Manifests)}
Unreadable(i) == "requirements" \in tree[i].fails

\* package p occurs in the text of file i, case-insensitively
Mentions(i, p) == Contains(Lower(tree[i].text), Lower(p))

\* C6 as stated: a root manifest that exists but cannot be read is left out
\* of requirements_files and of i18n_packages, and the other manifests are
\* still inspected.
C6_AsStated ==
    rpc = "done" =>
        /\ \A i \in RootManifests :
              Unreadable(i) => tree[i].name \notin Range(requirements_analysis.requirements_files)
        /\ \A p \in Range(requirements_analysis.i18n_packages) :
              \E i \in RootManifests : ~Unreadable(i) /\ Mentions(i, p)
        /\ \A i \in RootManifests : \A p \in Range(i18n_packages) :
              (~Unreadable(i) /\ Mentions(i, p))
                 => p \in Range(requirements_analysis.i18n_packages)

\* C6 amended: a root manifest that exists but cannot be read is listed in
\* requirements_files, as every manifest that exists is, but contributes no
\* entry to i18n_packages, and the other manifests are still inspected.
C6_UnreadableManifest ==
    rpc = "done" =>
        /\ \A m \in Range(Manifests) :
              m \in Range(requirements_analysis.requirements_files)
                 <=> \E i \in RootManifests : tree[i].name = m
        /\ \A p \in Range(requirements_analysis.i18n_packages) :
              \E i \in RootManifests : ~Unreadable(i) /\ Mentions(i, p)
        /\ \A i \in RootManifests : \A p \in Range(i18n_packages) :
              (~Unreadable(i) /\ Mentions(i, p))
                 => p \in Range(requirements_analysis.i18n_packages)

\* requirements.txt cannot be read although it names Babel, and the Pipfile
\* read after it yields its packages
C6_Witness ==
    /\ rpc = "done"
    /\ \E i \in RootManifests :
          Unreadable(i) /\ Mentions(i, <<"b","a","b","e","l">>) /\ tree[i].name = <<"r","e","q","u","i","r","e","m","e","n","t","s",".","t","x","t">>
    /\ requirements_analysis.requirements_files = <<<<"r","e","q","u","i","r","e","m","e","n","t","s",".","t","x","t">>, <<"P","i","p","f","i","l","e">>>>
    /\ requirements_analysis.i18n_packages = <<<<"b","a","b","e","l">>, <<"f","l","a","s","k","-","b","a","b","e","l">>>>

\* how often x occurs in s
Count(s, x) == Cardinality({i \in 1..Len(s) : s[i] = x})

\* C9: every recognized package has as many entries in i18n_packages as
\* there are root manifests in which the case-insensitive search found it.
C9_OneEntryPerManifest ==
    rpc = "done" =>
        \A p \in Range(i18n_packages) :
            Count(requirements_analysis.i18n_packages, p)
                = Cardinality({i \in RootManifests : ~Unreadable(i) /\ Mentions(i, p)})

\* babel is found in two manifests and listed twice
C9_Witness ==
    /\ rpc = "done"
    /\ Cardinality({i \in RootManifests : ~Unreadable(i) /\ Mentions(i, <<"b","a","b","e","l">>)}) = 2
    /\ Count(requirements_analysis.i18n_packages, <<"b","a","b","e","l">>) = 2

\* C12: is_multilingual is true exactly when a pattern category was detected
\* in some candidate file, or a translation-file bucket is non-empty, or
\* both an i18n package was found and more than one language was detected;
\* a package alone, or several languages alone, never makes it true.
C12_MultilingualExactlyWhen ==
    rpc = "done" =>
        /\ is_multilingual <=>
              (PatternsDetected \/ TranslationsFound
                  \/ (PackageFound /\ SeveralLanguages))
        /\ (PackageFound /\ ~PatternsDetected /\ ~TranslationsFound /\ ~SeveralLanguages)
              => ~is_multilingual
        /\ (SeveralLanguages /\ ~PatternsDetected /\ ~TranslationsFound /\ ~PackageFound)
              => ~is_multilingual

\* a package and two languages, no pattern and no translation file
C12_Witness ==
    /\ rpc = "done"
    /\ PackageFound /\ SeveralLanguages /\ ~PatternsDetected /\ ~TranslationsFound
    /\ is_multilingual /\ confidence_score = 30

----------------------------------------------------------------------------
(* Claims about detect_languages_in_content *)

\* C10 as stated: whatever the text, the detected languages and their union
\* over the files lie in the fixed catalog, which has 18 entries.
C10_AsStated ==
    /\ detected \subseteq LanguageCatalog
    /\ all_languages \subseteq LanguageCatalog
    /\ Cardinality(LanguageCatalog) = 18

\* C10 amended: whatever the text, the detected languages and their union
\* over the files lie in the fixed catalog, which has 17 entries (English
\* and 16 Indic languages).
C10_SubsetOfCatalog ==
    /\ detected \subseteq LanguageCatalog
    /\ all_languages \subseteq LanguageCatalog
    /\ Cardinality(LanguageCatalog) = 17
    /\ Len(LanguageKeys) = 17

\* two texts were scanned; the union holds more than the last detection
C10_Witness ==
    /\ fed = 2
    /\ "english" \in all_languages /\ "english" \notin detected
    /\ {"hindi", "sanskrit", "nepali"} \subseteq detected

----------------------------------------------------------------------------
(* Specifications *)

MainInit ==
    /\ mpc = "idle" /\ repo_url = <<>> /\ dir_exists = FALSE
    /\ created = 0 /\ removed = 0 /\ runs = 0

FetchInit ==
    /\ fpc = "idle" /\ idx = 0 /\ possible_urls = NoUrls /\ log = <<>>
    /\ tdir = {} /\ fresult = FALSE /\ xlayout = {} /\ pre = {}

ReportIdle ==
    /\ rpc = "idle" /\ tree = <<>> /\ fi = 0 /\ streamlit_files = <<>>
    /\ all_patterns = <<>> /\ all_languages = {}
    /\ translation_files = <<>> /\ requirements_analysis = <<>>
    /\ confidence_score = 0 /\ is_multilingual = FALSE
    /\ recommendations = <<>>

LangIdle == content = <<>> /\ detected = {} /\ fed = 0

\* the application: the user submits URLs, each valid one is fetched
Init == MainInit /\ FetchInit /\ ReportIdle /\ LangIdle

Next ==
    \/ Warn
    \/ Click
    \/ EnterTempDir
    \/ DirectClone
    \/ Method2
    \/ Request
    \/ SaveExtract
    \/ Flatten
    \/ FetchSucceeded
    \/ FetchFailed
    \/ ExitTempDir
    \/ Rerun

Spec == Init /\ [][Next]_vars

\* the analysis of one repository tree
ReportInit ==
    /\ MainInit /\ FetchInit /\ LangIdle
    /\ tree \in Trees
    /\ rpc = "find" /\ fi = 0 /\ streamlit_files = <<>>
    /\ all_patterns = <<>> /\ all_languages = {}
    /\ translation_files = <<>> /\ requirements_analysis = <<>>
    /\ confidence_score = 0 /\ is_multilingual = FALSE
    /\ recommendations = <<>>

ReportNext ==
    \/ R_Find
    \/ R_AnalyzeFile
    \/ R_Translations
    \/ R_Requirements
    \/ R_Score

SpecReport == ReportInit /\ [][ReportNext]_vars

\* the language detector on free texts
LangInit ==
    /\ MainInit /\ FetchInit
    /\ rpc = "idle" /\ tree = <<>> /\ fi = 0 /\ streamlit_files = <<>>
    /\ all_patterns = <<>> /\ all_languages = {}
    /\ translation_files = <<>> /\ requirements_analysis = <<>>
    /\ confidence_score = 0 /\ is_multilingual = FALSE
    /\ recommendations = <<>>
    /\ content \in Texts /\ detected = {} /\ fed = 0

LangNext == L_Feed

SpecLang == LangInit /\ [][LangNext]_vars

\* Claims about files whose read fails

\* the stages at which a source file is read
SourceReads == {"find", "patterns", "languages"}

\* the file is a .py file outside hidden and excluded directories that
\* discovery can read and that holds the framework marker
Discovered(f) ==
    /\ \A i \in 1..Len(f.dir) :
          f.dir[i][1] # "." /\ f.dir[i] \notin {<<"_","p","y","c","a","c","h","e","_">>, <<"n","o","d","e","_","m","o","d","u","l","e","s">>}
    /\ EndsWith(f.name, <<".","p","y">>)
    /\ "find" \notin f.fails
    /\ (Contains(Lower(f.text), <<"s","t","r","e","a","m","l","i","t">>) \/ Contains(f.text, <<"s","t",".">>))

\* one of the reads of the i-th file of the tree fails
ReadFails(i) == tree[i].fails \cap SourceReads # {}

\* the languages read out of the files that satisfy Ok
LanguagesOf(Ok(_)) ==
    UNION {DetectLanguages(tree[i].text) : i \in {j \in 1..Len(tree) : Ok(j)}}

\* the paths of the files that satisfy Ok
PathsOf(Ok(_)) == {RelPath(tree[i]) : i \in {j \in 1..Len(tree) : Ok(j)}}

\* the run is at one of the steps of the report: the discovery, the analysis
\* of one of the candidates, the step after the last candidate, the manifests
\* or the scoring
AtAStep ==
    \/ rpc = "find"
    \/ rpc = "loop" /\ fi \in 1..Len(streamlit_files)
    \/ rpc = "loop" /\ fi = Len(streamlit_files) + 1
    \/ rpc = "requirements"
    \/ rpc = "score"

====
